---------------------------- MODULE Spec2Model ----------------------------
(***************************************************************************)
(* BeatDetection (src/unnamed/part_004): kick / snare onset detection with *)
(* an adaptive threshold, rolling histories and the BPM estimator.         *)
(*                                                                         *)
(* Numbers.  Times are integer milliseconds.  Energies, flux, centroid,    *)
(* RMS and ZCR are fixed point with Scale units per 1.0 (0.1 is 10); a     *)
(* real value v is held as floor(v * Scale), which decides every           *)
(* comparison "input > v" exactly for inputs that are multiples of         *)
(* 1/Scale.  BPM estimates are held in 1/BpmScale beats per minute.        *)
(***************************************************************************)
EXTENDS Integers, Sequences, FiniteSets, TLC

Scale == 10 * 10
BpmScale == 10 * 10 * 10

\* ------------------------------------------------------------------ bounds
MaxCalls == 4           \* detector-level calls made in one run of Spec

\* ------------------------------------------------------- program constants
kickThresholdDefault == Scale \div 10          \* 0.1
kickCooldownDefault == 100
snareThreshold == (15 * Scale) \div 100        \* 0.15
snareCooldown == 120
onsetThresholdDefault == (5 * Scale) \div 100  \* 0.05
energyWindowSizeDefault == 20
adaptiveMultiplierDefault == 12                \* 1.2, in tenths
snareBrightness == (3 * Scale) \div 10         \* 0.3
detectionWindow == 10000                       \* "last 10 seconds"

\* ------------------------------------------------------------ arithmetic
Max(a, b) == IF a >= b THEN a ELSE b
Min(a, b) == IF a <= b THEN a ELSE b

RECURSIVE SqrtBetween(_, _, _)
SqrtBetween(x, lo, hi) ==
    IF lo >= hi THEN lo
    ELSE LET mid == (lo + hi + 1) \div 2
         IN  IF mid * mid <= x THEN SqrtBetween(x, mid, hi)
                               ELSE SqrtBetween(x, lo, mid - 1)

\* floor(Math.sqrt(x)) for 0 <= x < 2^31
ISqrt(x) == SqrtBetween(x, 0, 46340)

\* Math.round(n / d) for n >= 0, d > 0: floor(n/d + 1/2)
RoundDiv(n, d) == (2 * n + d) \div (2 * d)

RECURSIVE SumSeq(_)
SumSeq(s) == IF s = << >> THEN 0 ELSE Head(s) + SumSeq(Tail(s))

RECURSIVE SumSqSeq(_)
SumSqSeq(s) == IF s = << >> THEN 0 ELSE Head(s) * Head(s) + SumSqSeq(Tail(s))

PushNewestOut(h, x, cap) ==
    IF Len(h) >= cap THEN h ELSE Append(h, x)

\* array.push(x) followed by shift() when the length exceeds cap
PushShiftOldest(h, x, cap) ==
    LET p == Append(h, x) IN IF Len(p) > cap THEN Tail(p) ELSE p

\* ------------------------------------------------------------------ state
VARIABLES
    now,                    \* performance.now()
    config,                 \* the six options of getConfig / updateConfig
    energyHistory, rmsHistory, zcrHistory, confidenceHistory,
    previousFrequencyData,  \* << >> for null, else <<the previous magnitude array>>
    kickDetections, snareDetections,
    lastKickTime, lastSnareTime,
    bpm, lastBpmUpdate,
    kickConfidence, snareConfidence, tempoConfidence, beatConfidence,
    call,                   \* the last call made: operation, arguments, result
    ncalls,                 \* calls made so far
    kickFirings, snareFirings,  \* firings since construction or reset()
    returned,               \* the result objects analyzeFrame has returned, in order
    driver                  \* the driving loop and the audio it plays

detectorVars == <<kickDetections, snareDetections, lastKickTime, lastSnareTime>>
historyVars == <<energyHistory, rmsHistory, zcrHistory, confidenceHistory>>
confidenceVars == <<kickConfidence, snareConfidence, tempoConfidence, beatConfidence>>
vars == <<now, config, energyHistory, rmsHistory, zcrHistory, confidenceHistory,
          previousFrequencyData, kickDetections, snareDetections,
          lastKickTime, lastSnareTime, bpm, lastBpmUpdate,
          kickConfidence, snareConfidence, tempoConfidence, beatConfidence,
          call, ncalls, kickFirings, snareFirings, returned, driver>>

DefaultConfig ==
    [kickFreqRange |-> [min |-> 20, max |-> 200],
     kickThreshold |-> kickThresholdDefault,
     kickCooldown |-> kickCooldownDefault,
     onsetThreshold |-> onsetThresholdDefault,
     adaptiveMultiplier |-> adaptiveMultiplierDefault,
     energyWindowSize |-> energyWindowSizeDefault]

\* the fields the constructor sets
Constructed ==
    /\ config = DefaultConfig
    /\ energyHistory = << >> /\ rmsHistory = << >>
    /\ zcrHistory = << >> /\ confidenceHistory = << >>
    /\ previousFrequencyData = << >>
    /\ kickDetections = << >> /\ snareDetections = << >>
    /\ lastKickTime = 0 /\ lastSnareTime = 0
    /\ bpm = 0 /\ lastBpmUpdate = 0
    /\ kickConfidence = 0 /\ snareConfidence = 0
    /\ tempoConfidence = 0 /\ beatConfidence = 0

Init ==
    /\ Constructed
    /\ now = 0
    /\ call = [op |-> "new"]
    /\ ncalls = 0
    /\ kickFirings = 0 /\ snareFirings = 0
    /\ returned = << >>
    /\ driver = "direct"

\* ------------------------------------------------------ adaptive threshold
\* mean + (multiplier * stdDev) of the history, floored to Scale units:
\* with S the sum, Q the sum of squares and n the length, mean = S/n and
\* stdDev = sqrt(n*Q - S*S)/n, so the value is (10*S + sqrt(m*m*(n*Q - S*S)))/(10*n)
MeanPlusDeviation(h, m) ==
    LET n == Len(h)
        S == SumSeq(h)
        Q == SumSqSeq(h)
    IN  (10 * S + ISqrt(m * m * (n * Q - S * S))) \div (10 * n)

NoFloorThreshold(h, cfg) ==
    IF Len(h) = 0 THEN cfg.kickThreshold
    ELSE MeanPlusDeviation(h, cfg.adaptiveMultiplier)

getAdaptiveThreshold(h, cfg) ==
    IF Len(h) = 0 THEN cfg.kickThreshold
    ELSE Max(MeanPlusDeviation(h, cfg.adaptiveMultiplier), cfg.kickThreshold)

EnergyHistoryUntouched(h, energy, cfg) == h

\* lines 716-723
updateEnergyHistory(h, energy, cfg) ==
    PushShiftOldest(h, energy, cfg.energyWindowSize)

\* ---------------------------------------------------------------- detectors
KickEventSwapped(e, f, t, thr) ==
    [time |-> t, energy |-> thr, spectralFlux |-> f, threshold |-> e]

\* lines 771-776
KickEvent(e, f, t, thr) ==
    [time |-> t, energy |-> e, spectralFlux |-> f, threshold |-> thr]

\* lines 813-818
SnareEvent(e, f, c, t) ==
    [time |-> t, energy |-> e, spectralFlux |-> f, spectralCentroid |-> c]

EvictNever(log, t) == log

\* lines 779-780, 821-822: the filter "time > tenSecondsAgo" after a firing
KeepRecent(log, t) ==
    SelectSeq(log, LAMBDA ev : ev.time > t - detectionWindow)

KickNoCooldown(t, last, cfg) == FALSE

\* line 749: the early return
KickInCooldown(t, last, cfg) == t - last < cfg.kickCooldown

KickEnergyAtLeast(e, h, cfg) == e >= getAdaptiveThreshold(h, cfg)

\* line 759
KickEnergyThresholdMet(e, h, cfg) == e > getAdaptiveThreshold(h, cfg)

\* line 760
KickOnsetDetected(f, cfg) == f > cfg.onsetThreshold

\* whether detectKick(e, f, t) fires, with energy history h and last fire at last
KickFires(e, f, t, h, last, cfg) ==
    /\ ~KickInCooldown(t, last, cfg)
    /\ KickEnergyThresholdMet(e, h, cfg)
    /\ KickOnsetDetected(f, cfg)

KickLogAfter(log, e, f, t, h, cfg) ==
    KeepRecent(Append(log, KickEvent(e, f, t, getAdaptiveThreshold(h, cfg))), t)

\* line 795: the early return
SnareInCooldown(t, last) == t - last < snareCooldown

SnareNoBrightness(c) == TRUE

\* line 807
SnareBrightnessDetected(c) == c > snareBrightness

\* line 806: spectralFlux > onsetThreshold * 1.2
SnareOnsetDetected(f, cfg) == 10 * f > 12 * cfg.onsetThreshold

SnareFires(e, f, c, t, last, cfg) ==
    /\ ~SnareInCooldown(t, last)
    /\ e > snareThreshold
    /\ SnareOnsetDetected(f, cfg)
    /\ SnareBrightnessDetected(c)

SnareLogAfter(log, e, f, c, t) ==
    KeepRecent(Append(log, SnareEvent(e, f, c, t)), t)

\* ------------------------------------------------------------ tempo estimator
minInterval == 200
maxInterval == 2000
bpmTolerance == 5
bpmUpdateInterval == 1000

RECURSIVE InsertByTime(_, _)
InsertByTime(sorted, ev) ==
    IF sorted = << >> THEN <<ev>>
    ELSE IF ev.time < sorted[Len(sorted)].time
         THEN Append(InsertByTime(SubSeq(sorted, 1, Len(sorted) - 1), ev),
                     sorted[Len(sorted)])
         ELSE Append(sorted, ev)

RECURSIVE SortByTime(_)
\* .sort((a, b) => a.time - b.time), a stable sort
SortByTime(log) ==
    IF log = << >> THEN << >>
    ELSE InsertByTime(SortByTime(SubSeq(log, 1, Len(log) - 1)), log[Len(log)])

RecentUnfiltered(log, t, window) == SortByTime(log)

\* .filter(kick => currentTime - kick.time < window).sort(...)
RecentEvents(log, t, window) ==
    SortByTime(SelectSeq(log, LAMBDA ev : t - ev.time < window))

AnyInterval(i) == i >= minInterval

\* line 861
ValidInterval(i) == i >= minInterval /\ i <= maxInterval

RECURSIVE IntervalsFrom(_, _)
\* lines 857-864: the valid intervals between consecutive events r[i-1], r[i]
IntervalsFrom(r, i) ==
    IF i > Len(r) THEN << >>
    ELSE LET interval == r[i].time - r[i - 1].time
         IN  IF ValidInterval(interval)
             THEN <<interval>> \o IntervalsFrom(r, i + 1)
             ELSE IntervalsFrom(r, i + 1)

BpmEstimatePerSecond(interval) == (1000 * BpmScale) \div interval

\* line 874: 60000 / interval, in 1/BpmScale bpm
BpmEstimate(interval) == (60000 * BpmScale) \div interval

\* line 881: Math.round(bpm / tolerance) * tolerance with bpm = 60000 / interval
BinKey(interval) == RoundDiv(60000, bpmTolerance * interval) * bpmTolerance

\* the estimates pushed into bpmBins[key], in insertion order
BinMembers(intervals, key) ==
    LET in == SelectSeq(intervals, LAMBDA i : BinKey(i) = key)
    IN  [j \in 1..Len(in) |-> BpmEstimate(in[j])]

SetMin(S) == CHOOSE x \in S : \A y \in S : x <= y

RECURSIVE MostCommon(_, _, _)
\* lines 889-898: Object.entries visits the integer keys in ascending order; a
\* bin replaces the best so far only when it has strictly more members
MostCommon(intervals, keys, best) ==
    IF keys = {} THEN best
    ELSE LET k == SetMin(keys)
             estimates == BinMembers(intervals, k)
         IN  MostCommon(intervals, keys \ {k},
                        IF Len(estimates) > best.maxCount
                        THEN [maxCount |-> Len(estimates),
                              mostCommonBpm |-> SumSeq(estimates) \div Len(estimates)]
                        ELSE best)

AcceptSingle(best) == best.mostCommonBpm > 0 /\ best.maxCount >= 1

\* line 901
Accepted(best) == best.mostCommonBpm > 0 /\ best.maxCount >= 2

ReplacedByCandidate(b, c) == RoundDiv(c, BpmScale)

\* lines 904-909: candidate c in 1/BpmScale bpm; 0.7 * bpm + 0.3 * c, rounded
Smoothed(b, c) ==
    IF b = 0 THEN RoundDiv(c, BpmScale)
    ELSE RoundDiv(7 * b * BpmScale + 3 * c, 10 * BpmScale)

ResetToZero(b) == 0

\* the returns that leave this.bpm alone (lines 840, 851, 868, and line 901 false)
Retained(b) == b

\* updateBPM() at time t: the new value of this.bpm
updateBPM(log, t, b) ==
    IF Len(log) < 2 THEN Retained(b)
    ELSE LET recentKicks == RecentEvents(log, t, detectionWindow)
         IN  IF Len(recentKicks) < 2 THEN Retained(b)
             ELSE LET intervals == IntervalsFrom(recentKicks, 2)
                  IN  IF Len(intervals) = 0 THEN Retained(b)
                      ELSE LET keys == {BinKey(intervals[j]) : j \in 1..Len(intervals)}
                               best == MostCommon(intervals, keys,
                                           [maxCount |-> 0, mostCommonBpm |-> 0])
                           IN  IF Accepted(best) THEN Smoothed(b, best.mostCommonBpm)
                                                 ELSE Retained(b)

\* ------------------------------------------------------- the audio engine
SampleRate == 3200      \* audioEngine.audioContext.sampleRate
NumBins == 16           \* frequencyBinCount = fftSize / 2, the arrays' length

snareFreqMin == 200
snareFreqMax == 5000

\* Math.floor(hz / binSize) with binSize = (sampleRate / 2) / (fftSize / 2)
BinOfHz(hz) == (hz * 2 * NumBins) \div SampleRate

RECURSIVE SumOver(_, _, _)
\* the sum of term[i] for i = lo..hi
SumOver(term, lo, hi) ==
    IF lo > hi THEN 0 ELSE term[lo] + SumOver(term, lo + 1, hi)

\* sqrt(meanSquare) / full, in Scale units
RootOver(meanSquare, full) == ISqrt((meanSquare * Scale * Scale) \div (full * full))

\* lines 142-161
calculateKickEnergy(frequencyData, cfg) ==
    LET startBin == BinOfHz(cfg.kickFreqRange.min)
        endBin == Min(BinOfHz(cfg.kickFreqRange.max), NumBins - 1)
        count == IF endBin >= startBin THEN endBin - startBin + 1 ELSE 0
        energy == SumOver([i \in 0..(NumBins - 1) |->
                              frequencyData[i] * frequencyData[i]], startBin, endBin)
    IN  IF count > 0 THEN RootOver(energy \div count, 255) ELSE 0

\* lines 166-188: the bins above 1000 Hz weigh 1.5 (3 halves)
calculateSnareEnergy(frequencyData) ==
    LET startBin == BinOfHz(snareFreqMin)
        endBin == Min(BinOfHz(snareFreqMax), NumBins - 1)
        count == IF endBin >= startBin THEN endBin - startBin + 1 ELSE 0
        halves == [i \in 0..(NumBins - 1) |->
                      frequencyData[i] * frequencyData[i]
                          * (IF i * SampleRate > 1000 * 2 * NumBins THEN 3 ELSE 2)]
    IN  IF count > 0
        THEN RootOver(SumOver(halves, startBin, endBin) \div (2 * count), 255)
        ELSE 0

\* lines 193-212: (weightedSum / magnitudeSum) / nyquist, frequency = i * binSize
calculateSpectralCentroid(frequencyData) ==
    LET weightedSum == SumOver([i \in 0..(NumBins - 1) |-> i * frequencyData[i]],
                               0, NumBins - 1)
        magnitudeSum == SumOver(frequencyData, 0, NumBins - 1)
    IN  IF magnitudeSum > 0 THEN (Scale * weightedSum) \div (NumBins * magnitudeSum)
                            ELSE 0

\* new Uint8Array(length)
Zeros == [i \in 0..(NumBins - 1) |-> 0]

FluxOfAnyChange(frequencyData, previousData, cfg) ==
    IF previousData = << >> THEN 0
    ELSE LET previous == previousData[1]
             startBin == BinOfHz(cfg.kickFreqRange.min)
             endBin == BinOfHz(cfg.kickFreqRange.max)
             binCount == endBin - startBin + 1
             abs == [i \in 0..(NumBins - 1) |->
                        IF frequencyData[i] >= previous[i]
                        THEN frequencyData[i] - previous[i]
                        ELSE previous[i] - frequencyData[i]]
         IN  IF binCount > 0
             THEN (Scale * SumOver(abs, startBin, Min(endBin, NumBins - 1)))
                      \div (binCount * 255)
             ELSE 0

FluxAgainstSilence(frequencyData, previousData, cfg) ==
    LET previous == IF previousData = << >> THEN Zeros ELSE previousData[1]
        startBin == BinOfHz(cfg.kickFreqRange.min)
        endBin == BinOfHz(cfg.kickFreqRange.max)
        binCount == endBin - startBin + 1
        rise == [i \in 0..(NumBins - 1) |->
                    IF frequencyData[i] - previous[i] > 0
                    THEN frequencyData[i] - previous[i] ELSE 0]
    IN  IF binCount > 0
        THEN (Scale * SumOver(rise, startBin, Min(endBin, NumBins - 1)))
                 \div (binCount * 255)
        ELSE 0

\* lines 682-711
calculateSpectralFlux(frequencyData, previousData, cfg) ==
    IF previousData = << >> THEN 0
    ELSE LET previous == previousData[1]
             startBin == BinOfHz(cfg.kickFreqRange.min)
             endBin == BinOfHz(cfg.kickFreqRange.max)
             binCount == endBin - startBin + 1
             rise == [i \in 0..(NumBins - 1) |->
                         IF frequencyData[i] - previous[i] > 0
                         THEN frequencyData[i] - previous[i] ELSE 0]
         IN  IF binCount > 0
             THEN (Scale * SumOver(rise, startBin, Min(endBin, NumBins - 1)))
                      \div (binCount * 255)
             ELSE 0

\* lines 683-686: the snapshot calculateSpectralFlux leaves behind
SnapshotAfterFlux(previousData) ==
    IF previousData = << >> THEN <<Zeros>> ELSE previousData

RMSOverHalfRange(timeData) ==
    LET squares == [i \in 0..(NumBins - 1) |->
                       (timeData[i] - 128) * (timeData[i] - 128)]
    IN  RootOver(SumOver(squares, 0, NumBins - 1) \div NumBins, 127)

\* lines 217-235, the value: sqrt(mean(((b - 128) / 128)^2))
calculateRMSEnergy(timeData) ==
    LET squares == [i \in 0..(NumBins - 1) |->
                       (timeData[i] - 128) * (timeData[i] - 128)]
    IN  RootOver(SumOver(squares, 0, NumBins - 1) \div NumBins, 128)

\* lines 336-362, the value: sign changes between neighbours / (length - 1)
calculateZeroCrossingRate(timeData) ==
    LET crossing == [i \in 0..(NumBins - 1) |->
                        IF i = 0 THEN 0
                        ELSE IF (timeData[i - 1] >= 128) # (timeData[i] >= 128)
                             THEN 1 ELSE 0]
    IN  (Scale * SumOver(crossing, 0, NumBins - 1)) \div (NumBins - 1)

\* ------------------------------------------------------- confidence scores
\* sub-scores are held in 1/CScale; beatConfidence in 1/(10 * CScale)
CScale == 10 * 10 * 10
kickWindow == 8000
tempoWindow == 6000
rmsHistorySize == 30
zcrHistorySize == 30
confidenceHistorySize == 20

\* the gaps between all consecutive events of r
Intervals(r) == [i \in 1..(Len(r) - 1) |-> r[i + 1].time - r[i].time]

\* n^2 times the variance of the values of s
SpreadOf(s) == Len(s) * SumSqSeq(s) - SumSeq(s) * SumSeq(s)

\* Math.max(0, 1 - penalty * stdDev / mean) over the values of s, penalty in halves
ConsistencyScore(s, penalty) ==
    Max(0, CScale - (penalty * CScale * ISqrt(SpreadOf(s))) \div (2 * SumSeq(s)))

KickConfidenceOverWholeLog(log, t) ==
    IF Len(log) < 3 THEN 0
    ELSE LET recentKicks == SortByTime(log)
             consistencyScore == ConsistencyScore(Intervals(recentKicks), 4)
             energies == [i \in 1..Len(recentKicks) |-> recentKicks[i].energy]
             energyScore == ConsistencyScore(energies, 2)
         IN  (7 * consistencyScore + 3 * energyScore) \div 10

\* lines 504-549
calculateKickConfidence(log, t) ==
    IF Len(log) < 3 THEN 0
    ELSE LET recentKicks == RecentEvents(log, t, kickWindow)
         IN  IF Len(recentKicks) < 3 THEN 0
             ELSE LET consistencyScore == ConsistencyScore(Intervals(recentKicks), 4)
                      energies == [i \in 1..Len(recentKicks) |-> recentKicks[i].energy]
                      energyScore == ConsistencyScore(energies, 2)
                  IN  (7 * consistencyScore + 3 * energyScore) \div 10

\* lines 554-593
calculateSnareConfidence(log, t) ==
    IF Len(log) < 2 THEN 0
    ELSE LET recentSnares == RecentEvents(log, t, kickWindow)
         IN  IF Len(recentSnares) < 2 THEN 0
             ELSE LET consistencyScore == ConsistencyScore(Intervals(recentSnares), 3)
                      centroids == [i \in 1..Len(recentSnares) |->
                                       recentSnares[i].spectralCentroid]
                      brightnessScore ==
                          Max(0, CScale - (CScale * ISqrt(SpreadOf(centroids)))
                                              \div (Scale * Len(centroids)))
                  IN  (6 * consistencyScore + 4 * brightnessScore) \div 10

\* lines 629-641: |interval - target| < target * 0.15 for a target
\* (60000 / bpm) * ratio, ratio in 0.25, 0.5, 1, 2, 4 (quarters 1, 2, 4, 8, 16)
MatchesTempo(interval, b) ==
    \E q \in {1, 2, 4, 8, 16} :
        LET off == interval * b - 15000 * q
        IN  100 * (IF off >= 0 THEN off ELSE -off) < 15 * 15000 * q

TempoConfidenceAnyRange(b, log, t) ==
    IF b = 0 \/ Len(log) < 4 THEN 0
    ELSE LET recentKicks == RecentEvents(log, t, tempoWindow)
         IN  IF Len(recentKicks) < 4 THEN (3 * CScale) \div 10
             ELSE LET intervals == Intervals(recentKicks)
                      matching == SelectSeq(intervals, LAMBDA i : MatchesTempo(i, b))
                  IN  Min(CScale, (12 * CScale * Len(matching)) \div (10 * Len(intervals)))

\* lines 598-647
calculateTempoConfidence(b, log, t) ==
    IF b = 0 \/ Len(log) < 4 THEN 0
    ELSE IF b < 60 \/ b > 200 THEN (2 * CScale) \div 10
    ELSE LET recentKicks == RecentEvents(log, t, tempoWindow)
         IN  IF Len(recentKicks) < 4 THEN (3 * CScale) \div 10
             ELSE LET intervals == Intervals(recentKicks)
                      matching == SelectSeq(intervals, LAMBDA i : MatchesTempo(i, b))
                  IN  Min(CScale, (12 * CScale * Len(matching)) \div (10 * Len(intervals)))

BeatConfidenceEvenWeights(kick, snare, tempo) == 4 * kick + 4 * snare + 4 * tempo

\* lines 488-492
BeatConfidence(kick, snare, tempo) == 4 * kick + 3 * snare + 3 * tempo

NoisinessOfNonZero(h) ==
    IF Len(h) = 0 THEN "unknown"
    ELSE LET current == h[Len(h)]
         IN  IF current > 0 /\ 100 * current < 2 * Scale THEN "tonal"
             ELSE IF 100 * current < 5 * Scale THEN "mixed"
             ELSE "noisy"

\* lines 433-474: the noisiness getZCRStats() reports for the ZCR history h
Noisiness(h) ==
    IF Len(h) = 0 THEN "unknown"
    ELSE LET current == h[Len(h)]
         IN  IF 100 * current < 2 * Scale THEN "tonal"
             ELSE IF 100 * current < 5 * Scale THEN "mixed"
             ELSE "noisy"

ReliabilityOfNewest(h) ==
    LET newest == IF Len(h) > 0 THEN h[Len(h)] ELSE 0
    IN  IF newest >= 8 * CScale THEN "excellent"
        ELSE IF newest >= 6 * CScale THEN "good"
        ELSE IF newest >= 4 * CScale THEN "fair"
        ELSE IF newest >= 2 * CScale THEN "poor"
        ELSE "unreliable"

\* lines 652-676: the reliability getConfidenceStats() reports, the label of
\* the mean of the confidence history h (0 when h is empty)
Reliability(h) ==
    LET n == Max(Len(h), 1)
        total == SumSeq(h)
    IN  IF total >= 8 * CScale * n THEN "excellent"
        ELSE IF total >= 6 * CScale * n THEN "good"
        ELSE IF total >= 4 * CScale * n THEN "fair"
        ELSE IF total >= 2 * CScale * n THEN "poor"
        ELSE "unreliable"

\* ------------------------------------------------- inputs of the direct calls
Elapsed == {0, 20, 100, 10000}     \* ms between one call and the next
EnergyInputs == {5, 11, 40}
\* <<kickEnergy, spectralFlux>>: every criterion met, and each one just missed
KickInputs == {<<40, 6>>, <<11, 6>>, <<5, 6>>, <<40, 5>>}
\* <<snareEnergy, spectralFlux, spectralCentroid>>, likewise
SnareInputs == {<<16, 7, 31>>, <<15, 7, 31>>, <<16, 6, 31>>, <<16, 7, 30>>}

Advance(d) == now' = now + d

Counted ==
    /\ ncalls < MaxCalls
    /\ ncalls' = ncalls + 1

\* detectKick(kickEnergy, spectralFlux, currentTime) with currentTime = now'
DetectKickCall(e, f) ==
    /\ LET t == now'
           fired == KickFires(e, f, t, energyHistory, lastKickTime, config)
       IN  /\ lastKickTime' = IF fired THEN t ELSE lastKickTime
           /\ kickDetections' =
                  IF fired
                  THEN KickLogAfter(kickDetections, e, f, t, energyHistory, config)
                  ELSE kickDetections
           /\ call' = [op |-> "detectKick", time |-> t, energy |-> e,
                       spectralFlux |-> f, ret |-> fired]
           /\ kickFirings' = IF fired THEN kickFirings + 1 ELSE kickFirings
    /\ UNCHANGED <<config, historyVars, previousFrequencyData, snareDetections,
                   lastSnareTime, bpm, lastBpmUpdate, confidenceVars, snareFirings, returned, driver>>

\* detectKick called d ms after the previous call
DetectKick(d, e, f) == Advance(d) /\ Counted /\ DetectKickCall(e, f)

\* detectSnare(snareEnergy, spectralFlux, spectralCentroid, currentTime) with
\* currentTime = now'
DetectSnareCall(e, f, c) ==
    /\ LET t == now'
           fired == SnareFires(e, f, c, t, lastSnareTime, config)
       IN  /\ lastSnareTime' = IF fired THEN t ELSE lastSnareTime
           /\ snareDetections' =
                  IF fired THEN SnareLogAfter(snareDetections, e, f, c, t)
                           ELSE snareDetections
           /\ call' = [op |-> "detectSnare", time |-> t, energy |-> e,
                       spectralFlux |-> f, spectralCentroid |-> c, ret |-> fired]
           /\ snareFirings' = IF fired THEN snareFirings + 1 ELSE snareFirings
    /\ UNCHANGED <<config, historyVars, previousFrequencyData, kickDetections,
                   lastKickTime, bpm, lastBpmUpdate, confidenceVars, kickFirings, returned, driver>>

\* detectSnare called d ms after the previous call
DetectSnare(d, e, f, c) == Advance(d) /\ Counted /\ DetectSnareCall(e, f, c)

\* updateEnergyHistory(energy)
UpdateEnergyHistory(e) ==
    /\ Counted
    /\ energyHistory' = updateEnergyHistory(energyHistory, e, config)
    /\ call' = [op |-> "updateEnergyHistory", energy |-> e]
    /\ UNCHANGED <<now, config, rmsHistory, zcrHistory, confidenceHistory,
                   previousFrequencyData, detectorVars, bpm, lastBpmUpdate,
                   confidenceVars, kickFirings, snareFirings, returned, driver>>

\* getAdaptiveThreshold()
GetAdaptiveThreshold ==
    /\ Counted
    /\ call' = [op |-> "getAdaptiveThreshold",
                ret |-> getAdaptiveThreshold(energyHistory, config)]
    /\ UNCHANGED <<now, config, historyVars, previousFrequencyData, detectorVars,
                   bpm, lastBpmUpdate, confidenceVars, kickFirings, snareFirings, returned, driver>>

Next ==
    \/ \E d \in Elapsed, i \in KickInputs : DetectKick(d, i[1], i[2])
    \/ \E d \in Elapsed, i \in SnareInputs : DetectSnare(d, i[1], i[2], i[3])
    \/ \E e \in EnergyInputs : UpdateEnergyHistory(e)
    \/ GetAdaptiveThreshold

Spec == Init /\ [][Next]_vars

\* ------------------------------------------- the estimator called directly
MaxTempoCalls == 6
KickElapsed == {100, 200, 500, 600, 2000, 2100}
BpmElapsed == {0, 9000}

TempoCounted ==
    /\ ncalls < MaxTempoCalls
    /\ ncalls' = ncalls + 1

\* detectKick with its energy and flux criteria met, d ms after the previous call
KickFrame(d) == Advance(d) /\ TempoCounted /\ DetectKickCall(40, 6)

\* updateBPM(), d ms after the previous call
UpdateBPM(d) ==
    /\ Advance(d) /\ TempoCounted
    /\ bpm' = updateBPM(kickDetections, now', bpm)
    /\ call' = [op |-> "updateBPM", time |-> now']
    /\ UNCHANGED <<config, historyVars, previousFrequencyData, detectorVars,
                   lastBpmUpdate, confidenceVars, kickFirings, snareFirings, returned, driver>>

NextTempo ==
    \/ \E d \in KickElapsed : KickFrame(d)
    \/ \E d \in BpmElapsed : UpdateBPM(d)

SpecTempo == Init /\ [][NextTempo]_vars

\* ------------------------------------------------------------ analyzeFrame
MaxFrames == 80         \* analyzeFrame calls made in one run of SpecFrames

\* magnitudes: low over the kick range's bins, high above them
Spectrum(low, high) ==
    [i \in 0..(NumBins - 1) |-> IF i <= BinOfHz(200) THEN low ELSE high]

\* samples alternating between a and b
Wave(a, b) == [i \in 0..(NumBins - 1) |-> IF i % 2 = 0 THEN a ELSE b]

\* what getAnalysisData() yields: analysisData is null when data is FALSE, and
\* an array is missing from it when frequency or time is FALSE
Frame(data, frequency, time, frequencyData, timeData) ==
    [data |-> data, frequency |-> frequency, time |-> time,
     frequencyData |-> frequencyData, timeData |-> timeData]

FrameOf(kind) ==
    CASE kind = "silent" -> Frame(TRUE, TRUE, TRUE, Spectrum(0, 0), Wave(128, 128))
      [] kind = "kick" -> Frame(TRUE, TRUE, TRUE, Spectrum(200, 0), Wave(100, 156))
      [] kind = "full" -> Frame(TRUE, TRUE, TRUE, Spectrum(200, 200), Wave(0, 255))
      [] kind = "noData" -> Frame(FALSE, FALSE, FALSE, Zeros, Zeros)
      [] kind = "noFrequency" -> Frame(TRUE, FALSE, TRUE, Zeros, Wave(128, 128))
      [] kind = "noTime" -> Frame(TRUE, TRUE, FALSE, Spectrum(200, 0), Zeros)

FaultAt == {5, 6}
Drivers ==
    [dts : {<<200>>, <<250>>, <<1000>>, <<1001>>, <<16, 1000>>},
     period : {3, 4},
     spike : {"kick", "full"},
     fault : {"none", "noData", "noFrequency", "noTime"}]
    \cup
    [dts : {<<125>>, <<250>>},
     period : {4},
     spike : {"kick", "full", "silent"},
     fault : {"none"}]

\* what audioEngine.getAnalysisData() yields to the n-th call
FrameAt(drv, n) ==
    IF drv.fault # "none" /\ n \in FaultAt THEN FrameOf(drv.fault)
    ELSE IF n % drv.period = 0 THEN FrameOf(drv.spike)
    ELSE FrameOf("silent")

ElapsedAt(drv, n) == drv.dts[((n - 1) % Len(drv.dts)) + 1]

EstimatorAlways(t, last) == TRUE
EstimatorNever(t, last) == FALSE
EstimatorAtLeast(t, last) == t - last >= bpmUpdateInterval

\* line 112
EstimatorDue(t, last) == t - last > bpmUpdateInterval

\* lines 278-285
updateRMSHistory(h, rms) == PushShiftOldest(h, rms, rmsHistorySize)

\* lines 409-416
updateZCRHistory(h, zcr) == PushShiftOldest(h, zcr, zcrHistorySize)

\* lines 495-498
updateConfidenceHistory(h, c) == PushShiftOldest(h, c, confidenceHistorySize)

\* lines 74-76: analyzeFrame() without analysis data returns null
AnalyzeNothing ==
    /\ call' = [op |-> "analyzeFrame", time |-> now', ret |-> "null"]
    /\ UNCHANGED <<config, historyVars, previousFrequencyData, detectorVars, bpm,
                   lastBpmUpdate, confidenceVars, kickFirings, snareFirings, returned>>

\* lines 78-94: without timeData, calculateRMSEnergy throws at timeData.length,
\* after calculateSpectralFlux has set up its snapshot
AnalyzeThrows(frame) ==
    /\ previousFrequencyData' = SnapshotAfterFlux(previousFrequencyData)
    /\ call' = [op |-> "analyzeFrame", time |-> now', ret |-> "TypeError",
                frequencyData |-> frame.frequencyData]
    /\ UNCHANGED <<config, historyVars, detectorVars, bpm, lastBpmUpdate,
                   confidenceVars, kickFirings, snareFirings, returned>>

\* lines 78-137
AnalyzeData(frame) ==
    LET currentTime == now'
        frequencyData == frame.frequencyData
        kickEnergy == calculateKickEnergy(frequencyData, config)
        snareEnergy == calculateSnareEnergy(frequencyData)
        spectralFlux == calculateSpectralFlux(frequencyData, previousFrequencyData, config)
        spectralCentroid == calculateSpectralCentroid(frequencyData)
        rmsEnergy == calculateRMSEnergy(frame.timeData)
        zeroCrossingRate == calculateZeroCrossingRate(frame.timeData)
        energies == updateEnergyHistory(energyHistory, kickEnergy, config)
        kickDetected == KickFires(kickEnergy, spectralFlux, currentTime, energies,
                                  lastKickTime, config)
        kicks == IF kickDetected
                 THEN KickLogAfter(kickDetections, kickEnergy, spectralFlux,
                                   currentTime, energies, config)
                 ELSE kickDetections
        snareDetected == SnareFires(snareEnergy, spectralFlux, spectralCentroid,
                                    currentTime, lastSnareTime, config)
        snares == IF snareDetected
                  THEN SnareLogAfter(snareDetections, snareEnergy, spectralFlux,
                                     spectralCentroid, currentTime)
                  ELSE snareDetections
        due == EstimatorDue(currentTime, lastBpmUpdate)
        tempo == IF due THEN updateBPM(kicks, currentTime, bpm) ELSE bpm
        kickScore == calculateKickConfidence(kicks, currentTime)
        snareScore == calculateSnareConfidence(snares, currentTime)
        tempoScore == calculateTempoConfidence(tempo, kicks, currentTime)
        beatScore == BeatConfidence(kickScore, snareScore, tempoScore)
        result == [op |-> "analyzeFrame", time |-> currentTime, ret |-> "result",
                   frequencyData |-> frequencyData,
                   kickEnergy |-> kickEnergy, snareEnergy |-> snareEnergy,
                   spectralFlux |-> spectralFlux, spectralCentroid |-> spectralCentroid,
                   rmsEnergy |-> rmsEnergy, zeroCrossingRate |-> zeroCrossingRate,
                   kickDetected |-> kickDetected, snareDetected |-> snareDetected,
                   currentTime |-> currentTime,
                   adaptiveThreshold |-> getAdaptiveThreshold(energies, config),
                   bpm |-> tempo, beatConfidence |-> beatScore,
                   kickConfidence |-> kickScore, snareConfidence |-> snareScore,
                   tempoConfidence |-> tempoScore]
    IN  /\ rmsHistory' = updateRMSHistory(rmsHistory, rmsEnergy)
        /\ zcrHistory' = updateZCRHistory(zcrHistory, zeroCrossingRate)
        /\ energyHistory' = energies
        /\ kickDetections' = kicks
        /\ lastKickTime' = IF kickDetected THEN currentTime ELSE lastKickTime
        /\ kickFirings' = IF kickDetected THEN kickFirings + 1 ELSE kickFirings
        /\ snareDetections' = snares
        /\ lastSnareTime' = IF snareDetected THEN currentTime ELSE lastSnareTime
        /\ snareFirings' = IF snareDetected THEN snareFirings + 1 ELSE snareFirings
        /\ previousFrequencyData' = <<frequencyData>>
        /\ bpm' = tempo
        /\ lastBpmUpdate' = IF due THEN currentTime ELSE lastBpmUpdate
        /\ kickConfidence' = kickScore
        /\ snareConfidence' = snareScore
        /\ tempoConfidence' = tempoScore
        /\ beatConfidence' = beatScore
        /\ confidenceHistory' = updateConfidenceHistory(confidenceHistory, beatScore)
        /\ call' = result
        /\ returned' = Append(returned, result)
        /\ UNCHANGED config

\* analyzeFrame() on what the provider yields, d ms after the previous call
AnalyzeFrame(d, frame) ==
    /\ Advance(d)
    /\ IF ~frame.data \/ ~frame.frequency THEN AnalyzeNothing
       ELSE IF ~frame.time THEN AnalyzeThrows(frame)
       ELSE AnalyzeData(frame)

\* one tick of the driving loop
Tick ==
    /\ ncalls < MaxFrames
    /\ ncalls' = ncalls + 1
    /\ AnalyzeFrame(ElapsedAt(driver, ncalls'), FrameAt(driver, ncalls'))
    /\ UNCHANGED driver

InitFrames ==
    /\ Constructed
    /\ now = 0
    /\ call = [op |-> "new"]
    /\ ncalls = 0
    /\ kickFirings = 0 /\ snareFirings = 0
    /\ returned = << >>
    /\ driver \in Drivers

NextFrames == Tick

SpecFrames == InitFrames /\ [][NextFrames]_vars

\* ------------------------------------- detections along a scripted rhythm
MaxRhythmCalls == 12    \* calls made in one run of SpecRhythm

\* n events of kind op, gap ms apart, the first one gap ms after start
Beats(op, n, gap, start) == [i \in 1..n |-> [op |-> op, at |-> start + i * gap]]

Pause(t) == <<[op |-> "wait", at |-> t]>>

\* what is played: kicks and snares whose criteria are met, and silences
Rhythms ==
    {Beats("kick", 10, 500, 0),
     Beats("kick", 3, 500, 0) \o Beats("kick", 3, 600, 1500),
     Beats("kick", 3, 500, 0) \o Beats("kick", 1, 700, 1500)
         \o Beats("kick", 1, 500, 2200) \o Beats("kick", 1, 700, 2700),
     Beats("kick", 5, 2000, 0),
     Beats("kick", 5, 200, 0),
     Beats("kick", 4, 500, 0) \o Pause(7000) \o Pause(9600) \o Beats("kick", 2, 500, 9600),
     Beats("snare", 2, 500, 0) \o Pause(8700) \o Beats("snare", 2, 500, 8500)}

\* the steps of the rhythm still to come at time t
Upcoming(rhythm, t) == SelectSeq(rhythm, LAMBDA step : step.at > t)

RhythmCounted ==
    /\ ncalls < MaxRhythmCalls
    /\ ncalls' = ncalls + 1

\* the next kick of the rhythm reaches detectKick
StrikeKick ==
    /\ Upcoming(driver, now) # << >>
    /\ Head(Upcoming(driver, now)).op = "kick"
    /\ now' = Head(Upcoming(driver, now)).at
    /\ RhythmCounted
    /\ DetectKickCall(40, 6)

\* the next snare of the rhythm reaches detectSnare
StrikeSnare ==
    /\ Upcoming(driver, now) # << >>
    /\ Head(Upcoming(driver, now)).op = "snare"
    /\ now' = Head(Upcoming(driver, now)).at
    /\ RhythmCounted
    /\ DetectSnareCall(16, 7, 31)

\* time passes without a call
Silence ==
    /\ Upcoming(driver, now) # << >>
    /\ Head(Upcoming(driver, now)).op = "wait"
    /\ now' = Head(Upcoming(driver, now)).at
    /\ UNCHANGED <<config, historyVars, previousFrequencyData, detectorVars, bpm,
                   lastBpmUpdate, confidenceVars, call, ncalls, kickFirings,
                   snareFirings, returned, driver>>

\* updateBPM() at the current time
Estimate ==
    /\ RhythmCounted
    /\ bpm' = updateBPM(kickDetections, now, bpm)
    /\ call' = [op |-> "updateBPM", time |-> now]
    /\ UNCHANGED <<now, config, historyVars, previousFrequencyData, detectorVars,
                   lastBpmUpdate, confidenceVars, kickFirings, snareFirings,
                   returned, driver>>

\* calculateKickConfidence(currentTime) at the current time
CalculateKickConfidence ==
    /\ RhythmCounted
    /\ call' = [op |-> "calculateKickConfidence", time |-> now,
                ret |-> calculateKickConfidence(kickDetections, now)]
    /\ UNCHANGED <<now, config, historyVars, previousFrequencyData, detectorVars,
                   bpm, lastBpmUpdate, confidenceVars, kickFirings, snareFirings,
                   returned, driver>>

\* calculateSnareConfidence(currentTime) at the current time
CalculateSnareConfidence ==
    /\ RhythmCounted
    /\ call' = [op |-> "calculateSnareConfidence", time |-> now,
                ret |-> calculateSnareConfidence(snareDetections, now)]
    /\ UNCHANGED <<now, config, historyVars, previousFrequencyData, detectorVars,
                   bpm, lastBpmUpdate, confidenceVars, kickFirings, snareFirings,
                   returned, driver>>

\* calculateTempoConfidence(), which reads performance.now() itself
CalculateTempoConfidence ==
    /\ RhythmCounted
    /\ call' = [op |-> "calculateTempoConfidence", time |-> now,
                ret |-> calculateTempoConfidence(bpm, kickDetections, now)]
    /\ UNCHANGED <<now, config, historyVars, previousFrequencyData, detectorVars,
                   bpm, lastBpmUpdate, confidenceVars, kickFirings, snareFirings,
                   returned, driver>>

InitRhythm ==
    /\ Constructed
    /\ now = 0
    /\ call = [op |-> "new"]
    /\ ncalls = 0
    /\ kickFirings = 0 /\ snareFirings = 0
    /\ returned = << >>
    /\ driver \in Rhythms

NextRhythm ==
    \/ StrikeKick
    \/ StrikeSnare
    \/ Silence
    \/ Estimate
    \/ CalculateKickConfidence
    \/ CalculateSnareConfidence
    \/ CalculateTempoConfidence

SpecRhythm == InitRhythm /\ [][NextRhythm]_vars

\* --------------------------------------- analyzeFrame on any frame, and reset
MaxFluxCalls == 4       \* calls made in one run of SpecFlux
FrameKinds == {"silent", "kick", "full", "noData", "noFrequency", "noTime"}
FrameStep == 200

\* analyzeFrame() on a frame of any kind, FrameStep ms after the previous call
AnalyzeAny(kind) ==
    /\ ncalls < MaxFluxCalls
    /\ ncalls' = ncalls + 1
    /\ AnalyzeFrame(FrameStep, FrameOf(kind))
    /\ UNCHANGED driver

ResetKeepsSnapshot ==
    /\ ncalls < MaxFluxCalls
    /\ ncalls' = ncalls + 1
    /\ energyHistory' = << >> /\ rmsHistory' = << >>
    /\ zcrHistory' = << >> /\ confidenceHistory' = << >>
    /\ kickDetections' = << >> /\ snareDetections' = << >>
    /\ lastKickTime' = 0 /\ lastSnareTime' = 0
    /\ bpm' = 0 /\ lastBpmUpdate' = 0
    /\ beatConfidence' = 0 /\ kickConfidence' = 0
    /\ snareConfidence' = 0 /\ tempoConfidence' = 0
    /\ kickFirings' = 0 /\ snareFirings' = 0
    /\ call' = [op |-> "reset"]
    /\ UNCHANGED <<now, config, previousFrequencyData, returned, driver>>

\* lines 956-977: reset()
Reset ==
    /\ ncalls < MaxFluxCalls
    /\ ncalls' = ncalls + 1
    /\ energyHistory' = << >> /\ rmsHistory' = << >>
    /\ zcrHistory' = << >> /\ confidenceHistory' = << >>
    /\ previousFrequencyData' = << >>
    /\ kickDetections' = << >> /\ snareDetections' = << >>
    /\ lastKickTime' = 0 /\ lastSnareTime' = 0
    /\ bpm' = 0 /\ lastBpmUpdate' = 0
    /\ beatConfidence' = 0 /\ kickConfidence' = 0
    /\ snareConfidence' = 0 /\ tempoConfidence' = 0
    /\ kickFirings' = 0 /\ snareFirings' = 0
    /\ call' = [op |-> "reset"]
    /\ UNCHANGED <<now, config, returned, driver>>

NextFlux ==
    \/ \E kind \in FrameKinds : AnalyzeAny(kind)
    \/ Reset

SpecFlux == Init /\ [][NextFlux]_vars

\* -------------------------------- detection calls on arguments of any kind
MaxValueCalls == 2      \* calls made in one run of SpecValues

\* a JavaScript argument: a number (val in Scale units), NaN or undefined
Number(n) == [kind |-> "number", val |-> n]
NaN == [kind |-> "NaN", val |-> 0]
Undefined == [kind |-> "undefined", val |-> 0]

\* a > n for a number n: undefined converts to NaN, and NaN compares false
GreaterThan(a, n) == a.kind = "number" /\ a.val > n

\* a.toFixed(3) throws a TypeError on undefined, a value without properties
ToFixedThrows(a) == a.kind = "undefined"

KickArguments == {Number(40), NaN, Undefined}
FluxArguments == {Number(6), NaN, Undefined}
CentroidArguments == {Number(31), NaN}
ValueElapsed == {50, 150}

ValueCounted ==
    /\ ncalls < MaxValueCalls
    /\ ncalls' = ncalls + 1

\* lines 747-788: detectKick(e, f, now') d ms after the previous call; debug is
\* the outcome of Math.random() < 0.03 at line 764
DetectKickValues(d, e, f, debug) ==
    /\ Advance(d) /\ ValueCounted
    /\ LET t == now'
           adaptiveThreshold == getAdaptiveThreshold(energyHistory, config)
           cooling == KickInCooldown(t, lastKickTime, config)
           energyThresholdMet == GreaterThan(e, adaptiveThreshold)
           onsetDetected == GreaterThan(f, config.onsetThreshold)
           threw == ~cooling /\ debug /\ (ToFixedThrows(e) \/ ToFixedThrows(f))
           fired == ~cooling /\ ~threw /\ energyThresholdMet /\ onsetDetected
       IN  /\ lastKickTime' = IF fired THEN t ELSE lastKickTime
           /\ kickDetections' =
                  IF fired
                  THEN KeepRecent(Append(kickDetections,
                                         KickEvent(e.val, f.val, t, adaptiveThreshold)), t)
                  ELSE kickDetections
           /\ kickFirings' = IF fired THEN kickFirings + 1 ELSE kickFirings
           /\ call' = [op |-> "detectKick", time |-> t, energy |-> e,
                       spectralFlux |-> f, threw |-> threw, ret |-> fired]
    /\ UNCHANGED <<config, historyVars, previousFrequencyData, snareDetections,
                   lastSnareTime, bpm, lastBpmUpdate, confidenceVars, snareFirings,
                   returned, driver>>

\* lines 793-830: detectSnare(e, f, c, now') d ms after the previous call
DetectSnareValues(d, e, f, c) ==
    /\ Advance(d) /\ ValueCounted
    /\ LET t == now'
           fired == /\ ~SnareInCooldown(t, lastSnareTime)
                    /\ GreaterThan(e, snareThreshold)
                    /\ f.kind = "number" /\ SnareOnsetDetected(f.val, config)
                    /\ c.kind = "number" /\ SnareBrightnessDetected(c.val)
       IN  /\ lastSnareTime' = IF fired THEN t ELSE lastSnareTime
           /\ snareDetections' =
                  IF fired
                  THEN KeepRecent(Append(snareDetections,
                                         SnareEvent(e.val, f.val, c.val, t)), t)
                  ELSE snareDetections
           /\ snareFirings' = IF fired THEN snareFirings + 1 ELSE snareFirings
           /\ call' = [op |-> "detectSnare", time |-> t, energy |-> e,
                       spectralFlux |-> f, spectralCentroid |-> c,
                       threw |-> FALSE, ret |-> fired]
    /\ UNCHANGED <<config, historyVars, previousFrequencyData, kickDetections,
                   lastKickTime, bpm, lastBpmUpdate, confidenceVars, kickFirings,
                   returned, driver>>

NextValues ==
    \/ \E d \in ValueElapsed, e \in KickArguments, f \in FluxArguments,
          debug \in BOOLEAN : DetectKickValues(d, e, f, debug)
    \/ \E d \in ValueElapsed, e \in KickArguments, f \in FluxArguments,
          c \in CentroidArguments : DetectSnareValues(d, e, f, c)

SpecValues == Init /\ [][NextValues]_vars

\* ------------------------------------------------- configuration and stats
MaxConfigCalls == 4     \* updateConfig / getConfig / getBeatStats calls in one run

RecognisedOptions ==
    {"kickFreqRange", "kickThreshold", "kickCooldown", "onsetThreshold",
     "adaptiveMultiplier", "energyWindowSize"}

\* "config.key !== undefined": the key is present in the options object
Defined(options, key) == key \in DOMAIN options

\* "if (config.kickFreqRange)": present, and an object is truthy
Truthy(options, key) == key \in DOMAIN options

ReplacedConfig(options, cfg) ==
    [kickFreqRange |-> IF Truthy(options, "kickFreqRange")
                       THEN options.kickFreqRange ELSE DefaultConfig.kickFreqRange,
     kickThreshold |-> IF Defined(options, "kickThreshold")
                       THEN options.kickThreshold ELSE DefaultConfig.kickThreshold,
     kickCooldown |-> IF Defined(options, "kickCooldown")
                      THEN options.kickCooldown ELSE DefaultConfig.kickCooldown,
     onsetThreshold |-> IF Defined(options, "onsetThreshold")
                        THEN options.onsetThreshold ELSE DefaultConfig.onsetThreshold,
     adaptiveMultiplier |-> IF Defined(options, "adaptiveMultiplier")
                            THEN options.adaptiveMultiplier
                            ELSE DefaultConfig.adaptiveMultiplier,
     energyWindowSize |-> IF Defined(options, "energyWindowSize")
                          THEN options.energyWindowSize
                          ELSE DefaultConfig.energyWindowSize]

\* lines 997-1002: the configuration updateConfig(options) leaves behind
updateConfig(options, cfg) ==
    [kickFreqRange |-> IF Truthy(options, "kickFreqRange")
                       THEN [min |-> options.kickFreqRange.min,
                             max |-> options.kickFreqRange.max]
                       ELSE cfg.kickFreqRange,
     kickThreshold |-> IF Defined(options, "kickThreshold")
                       THEN options.kickThreshold ELSE cfg.kickThreshold,
     kickCooldown |-> IF Defined(options, "kickCooldown")
                      THEN options.kickCooldown ELSE cfg.kickCooldown,
     onsetThreshold |-> IF Defined(options, "onsetThreshold")
                        THEN options.onsetThreshold ELSE cfg.onsetThreshold,
     adaptiveMultiplier |-> IF Defined(options, "adaptiveMultiplier")
                            THEN options.adaptiveMultiplier ELSE cfg.adaptiveMultiplier,
     energyWindowSize |-> IF Defined(options, "energyWindowSize")
                          THEN options.energyWindowSize ELSE cfg.energyWindowSize]

\* lines 982-991
getConfig(cfg) ==
    [kickFreqRange |-> cfg.kickFreqRange,
     kickThreshold |-> cfg.kickThreshold,
     kickCooldown |-> cfg.kickCooldown,
     onsetThreshold |-> cfg.onsetThreshold,
     adaptiveMultiplier |-> cfg.adaptiveMultiplier,
     energyWindowSize |-> cfg.energyWindowSize]

\* option objects passed to updateConfig: thresholds in Scale units, the
\* multiplier in tenths, times in ms; "sensitivity" and "snareCooldown" are
\* keys updateConfig does not read
ConfigOptions ==
    {[sensitivity |-> 7],
     [kickCooldown |-> 0],
     [adaptiveMultiplier |-> 0, onsetThreshold |-> 0],
     [energyWindowSize |-> 1],
     [kickFreqRange |-> [min |-> 20, max |-> 400], kickThreshold |-> 30,
      snareCooldown |-> 0],
     [onsetThreshold |-> 0 - 1]}

\* updateConfig(options)
UpdateConfig(options) ==
    /\ ncalls < MaxConfigCalls
    /\ ncalls' = ncalls + 1
    /\ config' = updateConfig(options, config)
    /\ call' = [op |-> "updateConfig", options |-> options,
                assigned |-> {k \in RecognisedOptions :
                                 IF k = "kickFreqRange" THEN Truthy(options, k)
                                 ELSE Defined(options, k)}]
    /\ UNCHANGED <<now, historyVars, previousFrequencyData, detectorVars, bpm,
                   lastBpmUpdate, confidenceVars, kickFirings, snareFirings,
                   returned, driver>>

\* getConfig()
GetConfig ==
    /\ ncalls < MaxConfigCalls
    /\ ncalls' = ncalls + 1
    /\ call' = [op |-> "getConfig", ret |-> getConfig(config)]
    /\ UNCHANGED <<now, config, historyVars, previousFrequencyData, detectorVars,
                   bpm, lastBpmUpdate, confidenceVars, kickFirings, snareFirings,
                   returned, driver>>

\* lines 920-925: the events less than 5 seconds old
LastFiveSeconds(log, t) == SelectSeq(log, LAMBDA ev : t - ev.time < 5000)

RECURSIVE SumEnergy(_)
SumEnergy(log) == IF log = << >> THEN 0 ELSE Head(log).energy + SumEnergy(Tail(log))

\* lines 930-932, 937-939
AverageEnergy(log) == IF Len(log) > 0 THEN SumEnergy(log) \div Len(log) ELSE 0

\* lines 918-944, with currentTime = t
getBeatStats(kicks, snares, lastKick, lastSnare, b, t) ==
    [totalKicks |-> Len(kicks),
     recentKicks |-> Len(LastFiveSeconds(kicks, t)),
     averageKickEnergy |-> AverageEnergy(LastFiveSeconds(kicks, t)),
     lastKickTime |-> lastKick,
     timeSinceLastKick |-> t - lastKick,
     totalSnares |-> Len(snares),
     recentSnares |-> Len(LastFiveSeconds(snares, t)),
     averageSnareEnergy |-> AverageEnergy(LastFiveSeconds(snares, t)),
     lastSnareTime |-> lastSnare,
     timeSinceLastSnare |-> t - lastSnare,
     bpm |-> b]

\* getBeatStats()
GetBeatStats ==
    /\ ncalls < MaxConfigCalls
    /\ ncalls' = ncalls + 1
    /\ call' = [op |-> "getBeatStats",
                ret |-> getBeatStats(kickDetections, snareDetections, lastKickTime,
                                     lastSnareTime, bpm, now)]
    /\ UNCHANGED <<now, config, historyVars, previousFrequencyData, detectorVars,
                   bpm, lastBpmUpdate, confidenceVars, kickFirings, snareFirings,
                   returned, driver>>

ConfigElapsed == {0, 150, 10000}    \* ms between one detector call and the next
\* <<kickEnergy, spectralFlux>>: above every configured threshold, and above
\* the default ones only
ConfigKickInputs == {<<40, 6>>, <<11, 6>>}

\* the detectors called directly, between configuration changes, statistics
\* queries and resets
NextConfig ==
    \/ \E d \in ConfigElapsed, i \in ConfigKickInputs : DetectKick(d, i[1], i[2])
    \/ \E d \in ConfigElapsed : DetectSnare(d, 16, 7, 31)
    \/ \E options \in ConfigOptions : UpdateConfig(options)
    \/ GetConfig
    \/ GetBeatStats
    \/ Reset

SpecConfig == Init /\ [][NextConfig]_vars

\* analyzeFrame on frames of any kind, between configuration changes and resets
NextWindow ==
    \/ \E kind \in FrameKinds : AnalyzeAny(kind)
    \/ \E options \in ConfigOptions : UpdateConfig(options)
    \/ Reset

SpecWindow == Init /\ [][NextWindow]_vars

\* ------------------------------------------------- kicks, then silence
StaleFrames == 12       \* silent frames analysed after the last kick

\* n silent frames, dt ms apart
Quiet(n, dt) == [i \in 1..n |-> [kind |-> "silent", dt |-> dt]]

\* two silent frames and a kick frame, the kick gap ms after the previous one
Bar(gap) ==
    <<[kind |-> "silent", dt |-> 200], [kind |-> "silent", dt |-> 200],
      [kind |-> "kick", dt |-> gap - 400]>>

RECURSIVE Bars(_, _)
Bars(n, gap) == IF n = 0 THEN << >> ELSE Bar(gap) \o Bars(n - 1, gap)

\* what is played to analyzeFrame: kicks at a steady or a changing tempo,
\* then frames of silence a little over one estimator interval, or more, apart
Scripts ==
    {Bars(6, 500) \o Quiet(StaleFrames, 1001),
     Bars(4, 500) \o Bars(3, 600) \o Quiet(StaleFrames, 1001),
     Bars(4, 500) \o Bars(3, 2000) \o Quiet(StaleFrames, 1001),
     Bars(5, 700) \o Quiet(StaleFrames, 2500),
     Bars(4, 500) \o Quiet(StaleFrames, 4000)}

\* analyzeFrame() on the next frame of the script
PlayFrame ==
    /\ ncalls < Len(driver)
    /\ ncalls' = ncalls + 1
    /\ AnalyzeFrame(driver[ncalls + 1].dt, FrameOf(driver[ncalls + 1].kind))
    /\ UNCHANGED driver

InitStale ==
    /\ Constructed
    /\ now = 0
    /\ call = [op |-> "new"]
    /\ ncalls = 0
    /\ kickFirings = 0 /\ snareFirings = 0
    /\ returned = << >>
    /\ driver \in Scripts

NextStale == PlayFrame

SpecStale == InitStale /\ [][NextStale]_vars

\* ------------------------------------------------------------------ claims
Gaps(log, cooldown) ==
    \A i \in 1..(Len(log) - 1) : log[i + 1].time - log[i].time >= cooldown

\* C1: two successive kick firings are at least kickCooldown apart and two
\* successive snare firings at least snareCooldown apart, whatever the inputs.
C1_CooldownSeparatesFirings ==
    /\ Gaps(kickDetections, config.kickCooldown)
    /\ Gaps(snareDetections, snareCooldown)

\* a kick call whose energy and flux criteria are met, suppressed by the cooldown
C1_Witness ==
    /\ call.op = "detectKick" /\ ~call.ret
    /\ call.energy > getAdaptiveThreshold(energyHistory, config)
    /\ call.spectralFlux > config.onsetThreshold
    /\ kickFirings >= 1
    /\ call.time - lastKickTime < config.kickCooldown

\* e > max(mean + (m/10) * stdDev, floor) over history h, decided without a
\* square root: n*e > S and 100*(n*e - S)^2 > m^2 * (n*Q - S^2)
ExceedsThreshold(e, h, cfg) ==
    LET n == Len(h)
        S == SumSeq(h)
        Q == SumSqSeq(h)
        m == cfg.adaptiveMultiplier
    IN  /\ e > cfg.kickThreshold
        /\ n > 0 => /\ n * e > S
                    /\ 100 * (n * e - S) * (n * e - S) > m * m * (n * Q - S * S)

\* C2: detectKick returns true exactly when the energy exceeds the adaptive
\* threshold, the flux exceeds onsetThreshold and the cooldown has elapsed.
C2_KickFiresExactlyWhen ==
    [][call'.op = "detectKick" =>
          (call'.ret <=> /\ ExceedsThreshold(call'.energy, energyHistory, config)
                         /\ call'.spectralFlux > config.onsetThreshold
                         /\ call'.time - lastKickTime >= config.kickCooldown)]_vars

\* a kick fired over a threshold that the history raised above the floor
C2_Witness ==
    /\ call.op = "detectKick" /\ call.ret
    /\ getAdaptiveThreshold(energyHistory, config) > config.kickThreshold

\* C3: detectSnare returns true exactly when the energy exceeds 0.15, the flux
\* exceeds 1.2 * onsetThreshold, the centroid exceeds 0.3 and 120 ms have passed.
C3_SnareFiresExactlyWhen ==
    [][call'.op = "detectSnare" =>
          (call'.ret <=> /\ 100 * call'.energy > 15 * Scale
                         /\ 10 * call'.spectralFlux > 12 * config.onsetThreshold
                         /\ 10 * call'.spectralCentroid > 3 * Scale
                         /\ call'.time - lastSnareTime >= 120)]_vars

\* a snare fired exactly 120 ms after the previous one
C3_Witness ==
    /\ call.op = "detectSnare" /\ call.ret
    /\ Len(snareDetections) >= 2
    /\ call.time - snareDetections[Len(snareDetections) - 1].time = 120

\* log2 is a suffix of log1 followed by the one event ev
AppendsOne(log1, log2, ev) ==
    \E k \in 0..Len(log1) : log2 = Append(SubSeq(log1, k + 1, Len(log1)), ev)

\* C4: a call that fires appends exactly one event, stamped with the call's
\* time and carrying its energy and flux (and threshold or centroid), and sets
\* the last-fire timestamp; a call that does not fire changes neither.
C4_FiringEffect ==
    [][/\ call'.op = "detectKick" =>
            IF call'.ret
            THEN /\ AppendsOne(kickDetections, kickDetections',
                               [time |-> call'.time, energy |-> call'.energy,
                                spectralFlux |-> call'.spectralFlux,
                                threshold |-> getAdaptiveThreshold(energyHistory, config)])
                 /\ lastKickTime' = call'.time
            ELSE UNCHANGED <<kickDetections, lastKickTime>>
       /\ call'.op = "detectSnare" =>
            IF call'.ret
            THEN /\ AppendsOne(snareDetections, snareDetections',
                               [time |-> call'.time, energy |-> call'.energy,
                                spectralFlux |-> call'.spectralFlux,
                                spectralCentroid |-> call'.spectralCentroid])
                 /\ lastSnareTime' = call'.time
            ELSE UNCHANGED <<snareDetections, lastSnareTime>>]_vars

\* a kick appended to a log that already held one, over a raised threshold
C4_Witness ==
    /\ call.op = "detectKick" /\ call.ret
    /\ Len(kickDetections) >= 2
    /\ kickDetections[Len(kickDetections)].threshold # call.energy
    /\ kickDetections[Len(kickDetections)].threshold > config.kickThreshold

NoneStale(log, t) == \A i \in 1..Len(log) : t - log[i].time < detectionWindow

\* C5 as stated: after every detection call, firing or not, the call's log
\* holds no event 10 seconds or more older than the call.
C5_EvictedOnEveryCheck ==
    /\ call.op = "detectKick" => NoneStale(kickDetections, call.time)
    /\ call.op = "detectSnare" => NoneStale(snareDetections, call.time)

\* C5 amended: after every detection call that fires, the call's log holds no
\* event 10 seconds or more older than the call.
C5_EvictedOnFiring ==
    /\ (call.op = "detectKick" /\ call.ret) => NoneStale(kickDetections, call.time)
    /\ (call.op = "detectSnare" /\ call.ret) => NoneStale(snareDetections, call.time)

\* a second kick fired and the first, 10 seconds older, left the log
C5_Witness ==
    /\ call.op = "detectKick" /\ call.ret
    /\ kickFirings = 2 /\ Len(kickDetections) = 1

\* C6: getAdaptiveThreshold never returns less than kickThreshold, and returns
\* exactly kickThreshold over an empty history.
C6_ThresholdFloor ==
    call.op = "getAdaptiveThreshold" =>
        /\ call.ret >= config.kickThreshold
        /\ energyHistory = << >> => call.ret = config.kickThreshold

\* the floor is returned for a history whose mean + 1.2 stdDev lies below it
C6_Witness ==
    /\ call.op = "getAdaptiveThreshold"
    /\ Len(energyHistory) >= 2
    /\ MeanPlusDeviation(energyHistory, config.adaptiveMultiplier) < config.kickThreshold
    /\ call.ret = config.kickThreshold

\* the last n values of s
LastN(s, n) == SubSeq(s, Len(s) - n + 1, Len(s))

KickEnergies == [i \in 1..Len(returned) |-> returned[i].kickEnergy]
RmsEnergies == [i \in 1..Len(returned) |-> returned[i].rmsEnergy]
CrossingRates == [i \in 1..Len(returned) |-> returned[i].zeroCrossingRate]
BeatConfidences == [i \in 1..Len(returned) |-> returned[i].beatConfidence]

C8_EstimatorThrottled ==
    [][call'.op = "analyzeFrame" =>
          /\ lastBpmUpdate' # lastBpmUpdate =>
                 /\ call'.time - lastBpmUpdate > 1000
                 /\ lastBpmUpdate' = call'.time
          /\ lastBpmUpdate' = lastBpmUpdate => bpm' = bpm
          /\ bpm' # bpm => lastBpmUpdate' = call'.time]_vars

\* a run of the estimator, later than its first possible run, that changed bpm
C8_Witness ==
    /\ call.op = "analyzeFrame" /\ call.ret = "result"
    /\ lastBpmUpdate = call.time /\ call.time > 2 * 1000
    /\ Len(returned) >= 2
    /\ returned[Len(returned) - 1].bpm # call.bpm
    /\ returned[Len(returned) - 1].time > call.time - 1000

\* the events of log less than 10 seconds older than t
Recent(log, t) == SelectSeq(log, LAMBDA ev : t - ev.time < 10000)

\* the intervals between consecutive events of r that lie in [200, 2000]
Gaps200To2000(r) ==
    LET all == [i \in 1..(Len(r) - 1) |-> r[i + 1].time - r[i].time]
    IN  SelectSeq(all, LAMBDA g : g >= 200 /\ g <= 2000)

\* round((60000 / g) / 5) * 5 is k: k - 2.5 <= 60000 / g < k + 2.5
InBin(g, k) == (2 * k - 5) * g <= 120000 /\ 120000 < (2 * k + 5) * g

BinOf(gaps, k) == SelectSeq(gaps, LAMBDA g : InBin(g, k))
BinKeys == {5 * j : j \in 6..60}

\* the bin k of gaps has the most members, at least 2
Wins(gaps, k) ==
    /\ Len(BinOf(gaps, k)) >= 2
    /\ \A k2 \in BinKeys : Len(BinOf(gaps, k2)) <= Len(BinOf(gaps, k))

\* the mean of the estimates 60000 / g over the bin k, in 1/BpmScale bpm
BinMean(gaps, k) ==
    LET b == BinOf(gaps, k)
    IN  SumSeq([j \in 1..Len(b) |-> (60000 * BpmScale) \div b[j]]) \div Len(b)

\* C9: without reset(), bpm never returns to 0 once it is non-zero, and an
\* updateBPM call that finds no bin with 2 members leaves bpm as it was.
C9_BpmRetained ==
    [][/\ bpm # 0 => bpm' # 0
       /\ (/\ call'.op = "updateBPM"
           /\ \A k \in BinKeys :
                  Len(BinOf(Gaps200To2000(Recent(kickDetections, call'.time)), k)) < 2)
          => bpm' = bpm]_vars

\* an established bpm survived an updateBPM call that found a single interval
C9_Witness ==
    /\ call.op = "updateBPM" /\ bpm # 0
    /\ Len(kickDetections) >= 2
    /\ Len(Gaps200To2000(Recent(kickDetections, call.time))) = 1

\* C10: updateBPM bins the estimates 60000/interval of the consecutive
\* intervals within [200, 2000] ms among the kicks of the last 10 seconds into
\* round(estimate/5)*5; when the fullest bin has at least 2 members, the mean
\* of such a bin is the candidate blended into bpm, and otherwise bpm is kept.
C10_CandidateFromFullestBin ==
    [][call'.op = "updateBPM" =>
          LET gaps == Gaps200To2000(Recent(kickDetections, call'.time))
          IN  IF \E k \in BinKeys : Wins(gaps, k)
              THEN \E k \in BinKeys :
                      /\ Wins(gaps, k)
                      /\ bpm' = IF bpm = 0
                                THEN (2 * BinMean(gaps, k) + BpmScale) \div (2 * BpmScale)
                                ELSE (14 * bpm * BpmScale + 6 * BinMean(gaps, k)
                                        + 10 * BpmScale) \div (20 * BpmScale)
              ELSE bpm' = bpm]_vars

\* a bin of 2 won while a kick older than 10 seconds and a gap outside
\* [200, 2000] were left out
C10_Witness ==
    /\ call.op = "updateBPM"
    /\ LET r == Recent(kickDetections, call.time)
           gaps == Gaps200To2000(r)
       IN  /\ \E k \in BinKeys : Wins(gaps, k)
           /\ Len(r) < Len(kickDetections)
           /\ Len(gaps) < Len(r) - 1
           /\ bpm # 0

\* v rounded to the nearest integer is r, v in 1/unit: r - 1/2 <= v < r + 1/2
RoundsTo(v, unit, r) == 2 * r * unit - unit <= 2 * v /\ 2 * v < 2 * r * unit + unit

\* C11: an accepted candidate c turns bpm 0 into round(c) and a non-zero bpm
\* into round(0.7 * bpm + 0.3 * c), an integer that lies between the previous
\* bpm and c up to rounding.
C11_SmoothedBlend ==
    [][call'.op = "updateBPM" =>
          LET gaps == Gaps200To2000(Recent(kickDetections, call'.time))
          IN  (\E k \in BinKeys : Wins(gaps, k)) =>
                  \E k \in BinKeys :
                      /\ Wins(gaps, k)
                      /\ bpm' \in Nat
                      /\ LET c == BinMean(gaps, k)
                         IN  IF bpm = 0 THEN RoundsTo(c, BpmScale, bpm')
                             ELSE /\ RoundsTo(7 * bpm * BpmScale + 3 * c,
                                              10 * BpmScale, bpm')
                                  /\ 2 * bpm' * BpmScale >=
                                         2 * Min(bpm * BpmScale, c) - BpmScale
                                  /\ 2 * bpm' * BpmScale <=
                                         2 * Max(bpm * BpmScale, c) + BpmScale]_vars

\* an accepted update left bpm a whole beat or more away from its candidate
C11_Witness ==
    /\ call.op = "updateBPM" /\ bpm # 0
    /\ LET gaps == Gaps200To2000(Recent(kickDetections, call.time))
       IN  /\ \E k \in BinKeys : Wins(gaps, k)
           /\ \A k \in BinKeys :
                  Wins(gaps, k) =>
                      \/ bpm * BpmScale >= BinMean(gaps, k) + BpmScale
                      \/ bpm * BpmScale + BpmScale <= BinMean(gaps, k)

\* log holds 10 kicks of equal energy, each 500 ms after the one before, all
\* less than 8 seconds older than t
Regular10(log, t) ==
    /\ Len(log) = 10
    /\ \A i \in 1..9 : log[i + 1].time - log[i].time = 500
    /\ \A i \in 1..10 : t - log[i].time < 8000 /\ log[i].energy = log[1].energy

InUnit(v, unit) == v >= 0 /\ v <= unit

\* C13: after every analyzeFrame call the kick, snare, tempo and beat
\* confidences lie in [0, 1] and the beat confidence is 0.4 * kick + 0.3 * snare
\* + 0.3 * tempo of the scores of that same frame, which the result reports.
C13_ConfidencesWeighted ==
    /\ InUnit(kickConfidence, CScale) /\ InUnit(snareConfidence, CScale)
    /\ InUnit(tempoConfidence, CScale) /\ InUnit(beatConfidence, 10 * CScale)
    /\ beatConfidence = 4 * kickConfidence + 3 * snareConfidence + 3 * tempoConfidence
    /\ (call.op = "analyzeFrame" /\ call.ret = "result") =>
           /\ call.kickConfidence = kickConfidence
           /\ call.snareConfidence = snareConfidence
           /\ call.tempoConfidence = tempoConfidence
           /\ call.beatConfidence = beatConfidence

\* a frame scored with three different sub-scores, none of them 0
C13_Witness ==
    /\ call.op = "analyzeFrame" /\ call.ret = "result"
    /\ kickConfidence > 0 /\ snareConfidence > 0 /\ tempoConfidence > 0
    /\ kickConfidence # snareConfidence /\ snareConfidence # tempoConfidence
    /\ kickConfidence # tempoConfidence

\* the events of log less than span ms older than t
Within(log, t, span) == SelectSeq(log, LAMBDA ev : t - ev.time < span)

\* C14: the kick confidence is 0 whenever fewer than 3 kicks lie within the 8
\* seconds before the current time, and the snare confidence is 0 whenever
\* fewer than 2 snares do, however many older events the logs hold.
C14_TooFewRecentEvents ==
    /\ (call.op = "calculateKickConfidence"
          /\ Len(Within(kickDetections, call.time, 8000)) < 3) => call.ret = 0
    /\ (call.op = "calculateSnareConfidence"
          /\ Len(Within(snareDetections, call.time, 8000)) < 2) => call.ret = 0

\* a log of 4 kicks, only some of them recent, scored 0
C14_Witness ==
    /\ call.op = "calculateKickConfidence" /\ call.ret = 0
    /\ Len(kickDetections) >= 3
    /\ Len(Within(kickDetections, call.time, 8000)) \in {1, 2}

\* g is within 15% of 60000 / b times one of 0.25, 0.5, 1, 2, 4
NearBeat(g, b) ==
    \E quarters \in {1, 2, 4, 8, 16} :
        /\ 20 * g * b > 17 * 15000 * quarters
        /\ 20 * g * b < 23 * 15000 * quarters

\* C15: calculateTempoConfidence returns 0 if bpm is 0 or the log holds fewer
\* than 4 kicks; else 0.2 if bpm < 60 or bpm > 200; else 0.3 if fewer than 4
\* kicks lie within the last 6 seconds; else min(1, 1.2 * m / k) with k the
\* consecutive intervals of those kicks and m the ones within 15% of a
\* 0.25, 0.5, 1, 2 or 4 multiple of 60000 / bpm.
C15_TempoConfidenceOrder ==
    call.op = "calculateTempoConfidence" =>
        LET r == Within(kickDetections, call.time, 6000)
            gaps == [i \in 1..(Len(r) - 1) |-> r[i + 1].time - r[i].time]
            k == Len(gaps)
            m == Len(SelectSeq(gaps, LAMBDA g : NearBeat(g, bpm)))
        IN  IF bpm = 0 \/ Len(kickDetections) < 4 THEN call.ret = 0
            ELSE IF bpm < 60 \/ bpm > 200 THEN 10 * call.ret = 2 * CScale
            ELSE IF Len(r) < 4 THEN 10 * call.ret = 3 * CScale
            ELSE IF 12 * m >= 10 * k THEN call.ret = CScale
            ELSE /\ 10 * k * call.ret <= 12 * m * CScale
                 /\ 12 * m * CScale < 10 * k * (call.ret + 1)

\* some of the recent intervals match the tempo and some do not
C15_Witness ==
    /\ call.op = "calculateTempoConfidence"
    /\ bpm >= 60 /\ bpm <= 200
    /\ Len(Within(kickDetections, call.time, 6000)) >= 4
    /\ call.ret > (3 * CScale) \div 10 /\ call.ret < CScale

\* C16: from a fresh engine, while every frame is silent (magnitudes 0, samples
\* 128) no frame detects a kick or a snare, both logs stay empty, bpm stays 0,
\* beatConfidence is 0 and getZCRStats reports "tonal"; so in particular
\* throughout the first 5 seconds.
C16_SilenceDetectsNothing ==
    (call.op = "analyzeFrame" /\ driver.spike = "silent" /\ driver.fault = "none") =>
        /\ call.ret = "result"
        /\ ~call.kickDetected /\ ~call.snareDetected
        /\ \A i \in 1..Len(returned) :
               ~returned[i].kickDetected /\ ~returned[i].snareDetected
        /\ kickDetections = << >> /\ snareDetections = << >>
        /\ bpm = 0 /\ call.bpm = 0
        /\ beatConfidence = 0 /\ call.beatConfidence = 0
        /\ Noisiness(zcrHistory) = "tonal"

\* 5 seconds of silent frames have been analysed, the estimator having run
C16_Witness ==
    /\ call.op = "analyzeFrame" /\ driver.spike = "silent"
    /\ now = 5000 /\ Len(returned) = ncalls /\ ncalls >= 20
    /\ lastBpmUpdate > 0
    /\ \A i \in 1..Len(returned) :
           returned[i].kickEnergy = 0 /\ returned[i].spectralFlux = 0
              /\ returned[i].rmsEnergy = 0

\* every frame so far is one of a pattern whose kick energy and spectral flux
\* exceed their thresholds once every 500 ms and are 0 in between
SpikesEvery500 ==
    /\ driver.fault = "none" /\ Len(driver.dts) = 1
    /\ driver.period * driver.dts[1] = 500
    /\ \A i \in 1..Len(returned) :
           IF i % driver.period = 0
           THEN /\ returned[i].kickEnergy > returned[i].adaptiveThreshold
                /\ returned[i].spectralFlux > config.onsetThreshold
           ELSE returned[i].kickEnergy = 0 /\ returned[i].spectralFlux = 0

\* C17: from a fresh engine, after 10 seconds of frames whose kick energy and
\* flux spike over their thresholds every 500 ms, bpm is within [115, 125] and
\* the reliability label of the smoothed beat confidence is "good" or
\* "excellent".
C17_SteadyKicksGive120 ==
    (call.op = "analyzeFrame" /\ now = 10000 /\ Len(returned) = ncalls
        /\ SpikesEvery500) =>
        /\ bpm >= 115 /\ bpm <= 125
        /\ Reliability(confidenceHistory) \in {"good", "excellent"}

\* the 10 seconds have been played and their 20 spikes detected as kicks
C17_Witness ==
    /\ call.op = "analyzeFrame" /\ now = 10000 /\ Len(returned) = ncalls
    /\ SpikesEvery500
    /\ kickFirings = 20 /\ bpm = 120

\* the frame given to the last analyzeFrame call lacked data or an array
FaultyFrame ==
    LET frame == FrameAt(driver, ncalls)
    IN  ~frame.data \/ ~frame.frequency \/ ~frame.time

\* C18 as stated: given no frame, or a frame without its frequency or its
\* time-domain array, analyzeFrame raises no exception and returns a result
\* whose energy fields are 0 and whose kickDetected and snareDetected are false.
C18_FaultyFrameGivesZeroResult ==
    (call.op = "analyzeFrame" /\ FaultyFrame) =>
        /\ call.ret = "result"
        /\ call.kickEnergy = 0 /\ call.snareEnergy = 0 /\ call.rmsEnergy = 0
        /\ ~call.kickDetected /\ ~call.snareDetected

\* an argument that is NaN or undefined
Malformed(a) == a.kind # "number"

\* C19 as stated: a detection call whose energy or flux is NaN or undefined
\* never throws, returns false and leaves the detection log and the last-fire
\* timestamp unchanged, whether or not the debug-logging branch is taken.
C19_MalformedNeverThrows ==
    [][(/\ call'.op \in {"detectKick", "detectSnare"}
        /\ Malformed(call'.energy) \/ Malformed(call'.spectralFlux)) =>
          /\ ~call'.threw /\ ~call'.ret
          /\ UNCHANGED <<kickDetections, snareDetections, lastKickTime,
                         lastSnareTime>>]_vars

\* the bins of the kick range
KickBins == BinOfHz(20)..Min(BinOfHz(200), NumBins - 1)

C21_UpdateConfigMerges ==
    [][/\ call'.op = "updateConfig" =>
            LET options == call'.options IN
            /\ DOMAIN config' = RecognisedOptions
            /\ \A k \in RecognisedOptions :
                   config'[k] = IF k \in DOMAIN options THEN options[k] ELSE config[k]
            /\ call'.assigned = RecognisedOptions \cap DOMAIN options
            /\ UNCHANGED <<historyVars, previousFrequencyData, detectorVars, bpm,
                           lastBpmUpdate, confidenceVars>>
       /\ call'.op = "getConfig" =>
            /\ call'.ret = config
            /\ UNCHANGED config]_vars

\* an update naming recognised and unrecognised keys, made after another
\* update whose option it retains, with an event in the kick log
C21_Witness ==
    /\ call.op = "updateConfig"
    /\ "snareCooldown" \in DOMAIN call.options
    /\ config.kickThreshold = 30 /\ config.kickFreqRange.max = 400
    /\ config.kickCooldown = 0
    /\ config.onsetThreshold = onsetThresholdDefault
    /\ Len(kickDetections) > 0

\* C22: totalKicks and totalSnares of getBeatStats are cumulative: each is
\* the number of firings of its detector since construction or the last reset().
C22_TotalsAreCumulative ==
    call.op = "getBeatStats" =>
        /\ call.ret.totalKicks = kickFirings
        /\ call.ret.totalSnares = snareFirings

StrictlyIncreasing(log) ==
    \A i \in 1..(Len(log) - 1) : log[i].time < log[i + 1].time

\* C23 as stated: in every reachable state the timestamps in the kick log
\* and in the snare log are strictly increasing in storage order.
C23_TimestampsStrictlyIncrease ==
    /\ StrictlyIncreasing(kickDetections)
    /\ StrictlyIncreasing(snareDetections)

\* C23: the snare log is always strictly increasing in time, and a call made
\* while kickCooldown is positive keeps the kick log strictly increasing.
C23_IncreaseWhileCooldownPositive ==
    [][/\ StrictlyIncreasing(snareDetections')
       /\ (StrictlyIncreasing(kickDetections) /\ config.kickCooldown > 0)
              => StrictlyIncreasing(kickDetections')]_vars

\* a second kick logged under a positive cooldown, next to a logged snare
C23_Witness ==
    /\ call.op = "detectKick" /\ call.ret
    /\ config.kickCooldown > 0
    /\ Len(kickDetections) >= 2 /\ Len(snareDetections) >= 1

\* the time-domain array of the frame the last analyzeFrame call was given
AnalysedTimeData == FrameAt(driver, ncalls).timeData

Analysed == call.op = "analyzeFrame" /\ call.ret = "result"

\* C24 as stated: calculateRMSEnergy returns exactly 0 for an array constant
\* at 128 and exactly 1.0 for an array alternating between 0 and 255.
C24_RmsZeroAndOne ==
    Analysed =>
        /\ AnalysedTimeData = Wave(128, 128) => call.rmsEnergy = 0
        /\ AnalysedTimeData = Wave(0, 255) => call.rmsEnergy = Scale

\* C24: calculateRMSEnergy returns exactly 0 for an array constant at 128,
\* and for an array alternating between 0 and 255 a value below 1.0 and not
\* below 127/128, since 255 rescales to 127/128.
C24_RmsZeroAndBelowOne ==
    Analysed =>
        /\ AnalysedTimeData = Wave(128, 128) => call.rmsEnergy = 0
        /\ AnalysedTimeData = Wave(0, 255) =>
               /\ call.rmsEnergy < Scale
               /\ 128 * (call.rmsEnergy + 1) > 127 * Scale

\* an alternating 0/255 frame analysed after a frame constant at 128
C24_Witness ==
    /\ Analysed
    /\ AnalysedTimeData = Wave(0, 255)
    /\ call.rmsEnergy > 0
    /\ \E i \in 1..Len(returned) : returned[i].rmsEnergy = 0

\* C25: at the end of every analyzeFrame call that analyses a frame the
\* kick-energy history holds at most energyWindowSize samples, for the value
\* of energyWindowSize configured at that time.
C25_HistoryWithinConfiguredWindow ==
    Analysed => Len(energyHistory) <= config.energyWindowSize

\* no analyzeFrame call has analysed a frame since construction or reset()
NothingAnalysed == previousFrequencyData = << >> /\ energyHistory = << >>

\* C26: with onsetThreshold >= 0, the first analyzeFrame call after
\* construction or reset() computes a spectral flux of 0 and fires neither
\* detector, whatever the frame holds.
C26_FirstFrameFiresNothing ==
    [][(call'.op = "analyzeFrame" /\ NothingAnalysed /\ config.onsetThreshold >= 0)
          => /\ kickDetections' = kickDetections
             /\ snareDetections' = snareDetections
             /\ kickFirings' = kickFirings /\ snareFirings' = snareFirings
             /\ call'.ret = "result" =>
                    /\ call'.spectralFlux = 0
                    /\ ~call'.kickDetected /\ ~call'.snareDetected]_vars

\* the first frame after a reset, loud and bright enough for the snare
\* detector, analysed with onsetThreshold 0 and firing nothing
C26_Witness ==
    /\ Analysed /\ Len(returned) >= 2 /\ Len(energyHistory) = 1
    /\ config.energyWindowSize = energyWindowSizeDefault
    /\ config.onsetThreshold = 0 /\ call.spectralFlux = 0
    /\ call.snareEnergy > snareThreshold
    /\ call.spectralCentroid > snareBrightness
    /\ call.kickEnergy > config.kickThreshold
    /\ ~call.kickDetected /\ ~call.snareDetected

C28_BpmZeroOrInRange == bpm = 0 \/ bpm \in 30..300

\* the fastest accepted tempo, estimated from kicks 200 ms apart
C28_Witness == bpm = 300 /\ Len(kickDetections) >= 3

\* C29: reset() returns every field of the detection state to the value
\* the constructor gives it and leaves the six options unchanged, so the
\* engine continues from the state of a new engine with that configuration.
C29_ResetRestoresConstruction ==
    [][call'.op = "reset" =>
          /\ energyHistory' = << >> /\ rmsHistory' = << >>
          /\ zcrHistory' = << >> /\ confidenceHistory' = << >>
          /\ previousFrequencyData' = << >>
          /\ kickDetections' = << >> /\ snareDetections' = << >>
          /\ lastKickTime' = 0 /\ lastSnareTime' = 0
          /\ bpm' = 0 /\ lastBpmUpdate' = 0
          /\ kickConfidence' = 0 /\ snareConfidence' = 0
          /\ tempoConfidence' = 0 /\ beatConfidence' = 0
          /\ config' = config]_vars

\* a reset of an engine that was reconfigured and has analysed frames
C29_Witness ==
    /\ call.op = "reset"
    /\ config # DefaultConfig
    /\ Len(returned) >= 2
    /\ energyHistory = << >> /\ previousFrequencyData = << >>

\* the step is an analyzeFrame call that analysed a frame and fired no kick
NoKickFrame == call'.op = "analyzeFrame" /\ call'.ret = "result" /\ ~call'.kickDetected

\* C30 as stated: once bpm is within [60, 200] and the kick log holds at
\* least 4 events, a frame on which no kick fires changes neither the log nor
\* bpm, and from 8 seconds after the last kick such a frame reports
\* kickConfidence 0 and tempoConfidence exactly 0.3.
C30_StaleLogFreezesTempo ==
    [][(bpm \in 60..200 /\ Len(kickDetections) >= 4 /\ NoKickFrame)
          => /\ kickDetections' = kickDetections
             /\ bpm' = bpm
             /\ now' - lastKickTime >= 8000 =>
                    /\ call'.kickConfidence = 0
                    /\ call'.tempoConfidence = (3 * CScale) \div 10]_vars

\* C30: once bpm is set and the kick log holds at least 4 events, a frame on
\* which no kick fires leaves the log unchanged, and leaves bpm unchanged when
\* the last kick is at least 10 seconds old; from 8 seconds after the last
\* kick such a frame reports kickConfidence 0 and tempoConfidence 0.3 when the
\* bpm it reports is within [60, 200] and 0.2 when it is not, never 0.
C30_StaleLogKeepsTempoConfidence ==
    [][(bpm # 0 /\ Len(kickDetections) >= 4 /\ NoKickFrame)
          => /\ kickDetections' = kickDetections
             /\ now' - lastKickTime >= detectionWindow => bpm' = bpm
             /\ now' - lastKickTime >= 8000 =>
                    /\ call'.kickConfidence = 0
                    /\ call'.bpm = bpm'
                    /\ call'.tempoConfidence =
                           IF bpm' \in 60..200 THEN (3 * CScale) \div 10
                                               ELSE (2 * CScale) \div 10]_vars

\* a frame analysed more than 8 seconds after the last of at least 4 kicks,
\* reporting kickConfidence 0 and tempoConfidence 0.3 with bpm within [60, 200]
C30_Witness ==
    /\ Analysed /\ ~call.kickDetected
    /\ Len(kickDetections) >= 4 /\ bpm \in 60..200
    /\ now - lastKickTime >= 8000
    /\ call.kickConfidence = 0
    /\ call.tempoConfidence = (3 * CScale) \div 10

=============================================================================
